---------------------------- MODULE Spec2Model ----------------------------
(***************************************************************************)
(* Model of tag_genre_by_folder.py: the genre label derived from a file's  *)
(* path (normalize_genre, get_genre_from_path), the single-file update     *)
(* (set_genre_tag with backup_file and the permission retry), the worker   *)
(* (process_file) and the batch scheduler (process_files_in_batches, main).*)
(*                                                                         *)
(* Text is a sequence of characters; a character is a one-symbol string.   *)
(* A file suffix (".flac") is kept as one symbol of a file name, so that   *)
(* Path.suffix / os.path.splitext is "the last symbol when it is a suffix".*)
(* A path is a sequence of segments, a segment is a text.                  *)
(***************************************************************************)
EXTENDS Integers, Sequences, FiniteSets, TLC

\* Python's None where a text is expected: a text no label can equal
None == <<"None">>

(***************************************************************************)
(* Characters and the str methods normalize_genre uses.                    *)
(***************************************************************************)
LowerLetters == <<"a", "b", "c", "d", "e", "i", "j", "k", "m", "n", "o", "p", "r", "s", "u">>
UpperLetters == <<"A", "B", "C", "D", "E", "I", "J", "K", "M", "N", "O", "P", "R", "S", "U">>

\* ".flac" etc.: a suffix symbol and its upper-cased spelling
LowerSuffixes == <<".flac", ".mp3", ".au", ".acm", ".txt">>
UpperSuffixes == <<".FLAC", ".MP3", ".AU", ".ACM", ".TXT">>

\* str.split() separators
Whitespace == {" ", "TAB"}

Range(s) == {s[i] : i \in 1..Len(s)}

IndexOf(s, c) == CHOOSE i \in 1..Len(s) : s[i] = c

\* "sz" stands for U+00DF, "napos" for U+0149 and "apos" for U+02BC: characters
\* whose upper/title case is two characters long.
char_upper(c) ==
    IF c \in Range(LowerLetters) THEN <<UpperLetters[IndexOf(LowerLetters, c)]>>
    ELSE IF c \in Range(LowerSuffixes) THEN <<UpperSuffixes[IndexOf(LowerSuffixes, c)]>>
    ELSE IF c = "sz" THEN <<"S", "S">>
    ELSE IF c = "napos" THEN <<"apos", "N">>
    ELSE <<c>>

char_lower(c) ==
    IF c \in Range(UpperLetters) THEN <<LowerLetters[IndexOf(UpperLetters, c)]>>
    ELSE IF c \in Range(UpperSuffixes) THEN <<LowerSuffixes[IndexOf(UpperSuffixes, c)]>>
    ELSE <<c>>

char_title(c) ==
    IF c = "sz" THEN <<"S", "s">> ELSE char_upper(c)

RECURSIVE MapConcat(_, _)
\* the concatenation of Op(c) over the characters of w
MapConcat(w, which) ==
    IF w = <<>> THEN <<>>
    ELSE (CASE which = "upper" -> char_upper(Head(w))
            [] which = "lower" -> char_lower(Head(w))
            [] OTHER -> char_title(Head(w)))
         \o MapConcat(Tail(w), which)

\* str.upper()
str_upper(w) == MapConcat(w, "upper")

\* str.lower()
str_lower(w) == MapConcat(w, "lower")

\* str.capitalize(): first character title-cased, the rest lower-cased
str_capitalize(w) ==
    IF w = <<>> THEN <<>> ELSE char_title(Head(w)) \o str_lower(Tail(w))

RECURSIVE SplitFrom(_, _)
\* str.split(): the maximal runs of non-whitespace characters, `cur` being
\* the run under construction
SplitFrom(s, cur) ==
    IF s = <<>> THEN (IF cur = <<>> THEN <<>> ELSE <<cur>>)
    ELSE IF Head(s) \in Whitespace
         THEN (IF cur = <<>> THEN <<>> ELSE <<cur>>) \o SplitFrom(Tail(s), <<>>)
         ELSE SplitFrom(Tail(s), Append(cur, Head(s)))

str_split(s) == SplitFrom(s, <<>>)

RECURSIVE str_join(_)
\* ' '.join(words)
str_join(words) ==
    IF words = <<>> THEN <<>>
    ELSE IF Len(words) = 1 THEN words[1]
    ELSE words[1] \o <<" ">> \o str_join(Tail(words))

RECURSIVE str_lstrip(_)
str_lstrip(s) ==
    IF s # <<>> /\ Head(s) \in Whitespace THEN str_lstrip(Tail(s)) ELSE s

RECURSIVE str_rstrip(_)
str_rstrip(s) ==
    IF s # <<>> /\ s[Len(s)] \in Whitespace THEN str_rstrip(SubSeq(s, 1, Len(s) - 1)) ELSE s

\* str.strip()
str_strip(s) == str_rstrip(str_lstrip(s))

\* needle in hay (substring test)
str_contains(hay, needle) ==
    \E i \in 0..(Len(hay) - Len(needle)) : SubSeq(hay, i + 1, i + Len(needle)) = needle

words_to_preserve ==
    { <<"D", "J">>, <<"M", "C">>, <<"U", "K">>, <<"U", "S">>,
      <<"R", "&", "B">>, <<"A", "&", "R">>, <<"E", "D", "M">>, <<"I", "D", "M">>,
      <<"D", "n", "B">>, <<"D", "&", "B">>,
      <<"J", "-", "P", "o", "p">>, <<"K", "-", "P", "o", "p">>, <<"E", "M", "D">> }

\* one word of normalize_genre's loop
normalize_word(word) ==
    IF str_upper(word) \in words_to_preserve THEN str_upper(word)
    ELSE str_capitalize(word)

normalize_genre(genre) ==
    LET words == str_split(str_strip(genre))
    IN  str_join([i \in 1..Len(words) |-> normalize_word(words[i])])

(***************************************************************************)
(* Paths.                                                                  *)
(***************************************************************************)
IsPrefix(p, q) == Len(p) <= Len(q) /\ SubSeq(q, 1, Len(p)) = p

\* Path.relative_to(base): raises ValueError unless path is under base
relative_to_raises(path, base) == ~IsPrefix(base, path)

\* Path.relative_to(base).parts
relative_parts(path, base) == SubSeq(path, Len(base) + 1, Len(path))

get_genre_from_path(path, base_folder) ==
    IF relative_to_raises(path, base_folder) THEN None
    ELSE LET parts == relative_parts(path, base_folder)
         IN  IF parts = <<>> THEN None
             ELSE normalize_genre(parts[1])

(***************************************************************************)
(* Bounds of the model.                                                    *)
(***************************************************************************)
\* files in the tree
MaxFiles == 3
\* consecutive runs of main() over the same tree
MaxRuns == 2
\* recursive calls of set_genre_tag the interpreter allows before RecursionError
RecursionLimit == 3
\* what cpu_count() returns
AvailableCpus == 2
\* largest --batch-size tried
MaxBatchSize == 2
\* longest free-form folder name given to normalize_genre
MaxTextLen == 3

(***************************************************************************)
(* The format table.                                                       *)
(***************************************************************************)
AUDIO_EXTS == {".mp3", ".flac", ".au", ".acm"}

\* the FLAC-style rows (list-valued setter) and the EasyID3 rows (scalar setter)
FORMAT_HANDLERS ==
    [e \in {".flac", ".mp3"} |->
        IF e = ".mp3"
        THEN [cls |-> "EasyID3", tag_key |-> "genre", wraps |-> FALSE]
        ELSE [cls |-> "FLAC", tag_key |-> "genre", wraps |-> TRUE]]

\* the fourth column: what is assigned to the tag key, a list or a bare text
setter(ext, genre) ==
    IF FORMAT_HANDLERS[ext].wraps THEN <<genre>> ELSE genre

\* the third column (lambda a, g: g) applied to the first element read
getter(ext, current_tag) == current_tag

\* audio[tag_key] = value as the container stores it: EasyID3 turns a bare
\* text into a one-element list, the other containers are given a list
container_assign(ext, value) ==
    IF FORMAT_HANDLERS[ext].cls = "EasyID3" THEN <<value>> ELSE value

\* audio.get(tag_key, [None])[0]; raises IndexError on an empty list
read_first_raises(h) == h.has_key /\ h.values = <<>>

read_first(h) == IF h.has_key THEN h.values[1] ELSE None

(***************************************************************************)
(* Files.  A file record holds the path (dir, stem, ext), the container's  *)
(* content (tagged: an ID3 header is present; has_key/values: the genre    *)
(* key), the access the process has (perm), what os.chmod does (chmod),    *)
(* whether the container library rejects the file (err), the permission    *)
(* bits (mode) and the sibling backup (bak_exists, bak, bak_err: copy2     *)
(* raises).                                                                *)
(***************************************************************************)
Content(F) == [tagged |-> F.tagged, has_key |-> F.has_key, values |-> F.values]

NoContent == [tagged |-> FALSE, has_key |-> FALSE, values |-> <<>>]

file_name(F) == F.stem \o <<F.ext>>

file_path(F) == Append(F.dir, file_name(F))

\* Path.suffix.lower() / os.path.splitext(fname)[1].lower()
suffix_lower(F) == char_lower(F.ext)[1]

(***************************************************************************)
(* set_genre_tag, one file-system operation per step.  A step maps the     *)
(* task t and the file F to [t, F, w]: the task and the file afterwards    *)
(* and the number of times the container was persisted.  t.pc is the       *)
(* position in the call, t.depth the number of recursive calls made, t.h   *)
(* the tags the open container holds, t.log what the worker logged last.   *)
(***************************************************************************)
NewTask ==
    [pc |-> "pending", depth |-> 0, ret |-> FALSE, log |-> "", result |-> "",
     h |-> NoContent]

Step(t, F, w) == [t |-> t, F |-> F, w |-> w]

\* process_file's last lines: the result text for set_genre_tag's return value
result_of(updated) ==
    IF updated THEN "Genre set to" ELSE "Already correct or failed"

\* return `updated` from set_genre_tag, and from process_file
Return(t, updated, log) ==
    [t EXCEPT !.pc = "done", !.ret = updated, !.log = log,
              !.result = result_of(updated)]

\* the handler without its dry_run test: os.chmod also in a dry run
on_permission_error_no_dry_test(t, F, o) ==
    Step([t EXCEPT !.pc = "chmod"], F, 0)

\* except PermissionError: in a dry run report an update, else go to os.chmod
on_permission_error(t, F, o) ==
    IF o.dry_run THEN Step(Return(t, TRUE, "would fix permissions"), F, 0)
    ELSE Step([t EXCEPT !.pc = "chmod"], F, 0)

\* except Exception as e: log the error, return False
on_exception(t, F) == Step(Return(t, FALSE, "error"), F, 0)

\* lines 229-249 on an open container holding h
compare(t, F, h, genre, o) ==
    IF read_first_raises(h) THEN on_exception(t, F)
    ELSE IF getter(suffix_lower(F), read_first(h)) = genre
         THEN Step(Return(t, FALSE, ""), F, 0)
    ELSE IF o.dry_run THEN Step(Return(t, TRUE, "would update"), F, 0)
    ELSE Step([t EXCEPT !.pc = IF o.backup THEN "backup" ELSE "write", !.h = h], F, 0)

\* AudioClass(str(file_path)); for .mp3 a failure of EasyID3 for any reason
\* (no ID3 header, unreadable, malformed) is caught by the inner except
open_container(t, F, genre, o) ==
    IF suffix_lower(F) = ".mp3"
    THEN IF F.perm = "none" \/ F.err = "open" \/ ~F.tagged
         THEN IF o.dry_run THEN Step(Return(t, TRUE, ""), F, 0)
              ELSE Step([t EXCEPT !.pc = "addtags"], F, 0)
         ELSE compare(t, F, Content(F), genre, o)
    ELSE IF F.perm = "none" THEN on_permission_error(t, F, o)
    ELSE IF F.err = "open" THEN on_exception(t, F)
    ELSE compare(t, F, Content(F), genre, o)

\* MP3(path); add_tags(); save(); AudioClass(path)
add_tags(t, F, genre, o) ==
    IF F.perm = "none" THEN on_permission_error(t, F, o)
    ELSE IF F.err = "open" \/ F.tagged THEN on_exception(t, F)
    ELSE IF F.perm # "rw" THEN on_permission_error(t, F, o)
    ELSE IF F.err = "save" THEN on_exception(t, F)
    ELSE LET G == [F EXCEPT !.tagged = TRUE]
             r == compare(t, G, Content(G), genre, o)
         IN  Step(r.t, r.F, 1)

\* backup_file: if not os.path.exists(backup_path)
backup_exists(t, F) ==
    Step([t EXCEPT !.pc = IF F.bak_exists THEN "write" ELSE "copy"], F, 0)

\* backup_file: shutil.copy2; a failure is logged and set_genre_tag goes on
backup_file(t, F) ==
    IF F.bak_err THEN Step([t EXCEPT !.pc = "write", !.log = "backup failed"], F, 0)
    ELSE Step([t EXCEPT !.pc = "write"],
              [F EXCEPT !.bak_exists = TRUE, !.bak = Content(F)], 0)

\* the write without its assignment: audio.save() alone
write_tag_no_assign(t, F, genre, o) ==
    IF F.perm # "rw" THEN on_permission_error(t, F, o)
    ELSE IF F.err = "save" THEN on_exception(t, F)
    ELSE Step(Return(t, TRUE, ""), [F EXCEPT !.tagged = TRUE], 1)

\* audio[tag_key] = setter(audio, genre); audio.save()
write_tag(t, F, genre, o) ==
    IF F.perm # "rw" THEN on_permission_error(t, F, o)
    ELSE IF F.err = "save" THEN on_exception(t, F)
    ELSE Step(Return(t, TRUE, ""),
              [F EXCEPT !.tagged = TRUE, !.has_key = TRUE,
                        !.values = container_assign(suffix_lower(F),
                                                    setter(suffix_lower(F), genre))],
              1)

\* os.chmod(file_path, 0o664); return set_genre_tag(...)
chmod_and_retry(t, F) ==
    IF F.chmod = "fail" THEN Step(Return(t, FALSE, "permission error"), F, 0)
    ELSE LET G == [F EXCEPT !.mode = "664",
                            !.perm = IF F.chmod = "fix" THEN "rw" ELSE @]
         IN  IF t.depth + 1 > RecursionLimit
             THEN Step(Return(t, FALSE, "permission error"), G, 0)
             ELSE Step([t EXCEPT !.pc = "open", !.depth = @ + 1], G, 0)

\* set_genre_tag's first lines: the extension lookup
lookup(t, F) ==
    IF suffix_lower(F) \notin DOMAIN FORMAT_HANDLERS
    THEN Return(t, FALSE, IF suffix_lower(F) \in {".au", ".acm"}
                          THEN "format not supported"
                          ELSE "unsupported file type")
    ELSE [t EXCEPT !.pc = "open"]

\* process_file without its filter test: every resolved genre goes on to
\* set_genre_tag
process_file_no_filter(t, F, base_folder, o) ==
    LET genre == get_genre_from_path(file_path(F), base_folder)
    IN  IF genre = None \/ genre = <<>>
        THEN [t EXCEPT !.pc = "done", !.result = "Genre not found"]
        ELSE lookup(t, F)

\* process_file up to its call of set_genre_tag
process_file(t, F, base_folder, o) ==
    LET genre == get_genre_from_path(file_path(F), base_folder)
    IN  IF genre = None \/ genre = <<>>
        THEN [t EXCEPT !.pc = "done", !.result = "Genre not found"]
        ELSE IF o.genre # None /\ o.genre # <<>>
                /\ ~str_contains(str_lower(genre), str_lower(o.genre))
        THEN [t EXCEPT !.pc = "done", !.result = "Skipped (genre filter)"]
        ELSE lookup(t, F)

(***************************************************************************)
(* State.                                                                  *)
(***************************************************************************)
VARIABLES
    opts,            \* the parsed arguments (args)
    fs,              \* the tree: file id -> file record
    fs0,             \* the tree before the first run
    fs1,             \* the tree when the current run scanned it
    files_and_args,  \* main's work list: <<file id, base_folder>> entries
    num_workers,     \* main's num_workers
    pc,              \* where main / process_files_in_batches is
    i,               \* the loop variable of process_files_in_batches
    batch,           \* the indices (1-based) of the slice being mapped
    task,            \* one record per work-list entry: the worker's call
    progress,        \* pbar's count
    levels,          \* the level each returned result was logged at
    run,             \* which run of main this is
    prev,            \* the results of the previous run
    batches,         \* the slices dispatched so far in this run
    nwrites,         \* containers persisted so far in this run
    nin,             \* normalize_genre's argument (function check)
    nout,            \* normalize_genre's value
    gpath,           \* get_genre_from_path's path (function check)
    gbase,           \* get_genre_from_path's base_folder
    gout             \* get_genre_from_path's value

vars == <<opts, fs, fs0, fs1, files_and_args, num_workers, pc, i, batch, task,
          progress, levels, run, prev, batches, nwrites, nin, nout,
          gpath, gbase, gout>>

Files == DOMAIN fs

Entries == 1..Len(files_and_args)

Min(a, b) == IF a < b THEN a ELSE b

\* the genre process_file resolves for entry k
genre_of(k) ==
    get_genre_from_path(file_path(fs[files_and_args[k].f]), files_and_args[k].base)

Running(k) == task[k].pc \notin {"pending", "done"}

Active == Cardinality({k \in Entries : Running(k)})

(***************************************************************************)
(* main and process_files_in_batches.                                      *)
(***************************************************************************)
\* os.path.isdir(base_folder)
isdir(base_folder) == \E f \in Files : IsPrefix(base_folder, fs[f].dir)

RECURSIVE find_from(_, _)
\* find_audio_files: the audio files under root_folder among files f..MaxFiles
find_from(root_folder, f) ==
    IF f \notin Files THEN <<>>
    ELSE (IF IsPrefix(root_folder, fs[f].dir) /\ suffix_lower(fs[f]) \in AUDIO_EXTS
          THEN <<[f |-> f, base |-> root_folder]>> ELSE <<>>)
         \o find_from(root_folder, f + 1)

find_audio_files(root_folder) == find_from(root_folder, 1)

RECURSIVE collect(_)
\* main's loop over directories
collect(directories) ==
    IF directories = <<>> THEN <<>>
    ELSE (IF isdir(Head(directories)) THEN find_audio_files(Head(directories)) ELSE <<>>)
         \o collect(Tail(directories))

\* num_workers = min(args.cpu_limit, available_cpus) if args.cpu_limit else available_cpus
workers_for(cpu_limit, available_cpus) ==
    IF cpu_limit.given /\ cpu_limit.n # 0 THEN Min(cpu_limit.n, available_cpus)
    ELSE available_cpus

\* the slice one entry short: files_and_args[i:i+batch_size-1]
slice_short(total, start, batch_size) == (start + 1)..Min(start + batch_size - 1, total)

\* files_and_args[i:i+batch_size], as 1-based indices
slice(total, start, batch_size) == (start + 1)..Min(start + batch_size, total)

\* the aggregator's level for a result text
log_level(result) ==
    CASE result = "Genre set to" -> "info"
      [] result = "Already correct or failed" -> "debug"
      [] result = "Skipped (genre filter)" -> "debug"
      [] OTHER -> "warning"

\* main up to its call of process_files_in_batches
main_scan ==
    /\ pc = "main"
    /\ files_and_args' = collect(opts.directories)
    /\ num_workers' = workers_for(opts.cpu_limit, AvailableCpus)
    /\ pc' = IF files_and_args' = <<>> THEN "nofiles" ELSE "loop"
    /\ i' = 0
    /\ task' = [k \in 1..Len(files_and_args') |-> NewTask]
    /\ levels' = [k \in 1..Len(files_and_args') |-> ""]
    /\ progress' = 0
    /\ batches' = <<>>
    /\ batch' = {}
    /\ nwrites' = 0
    /\ fs1' = fs
    /\ UNCHANGED <<opts, fs, fs0, run, prev, nin, nout,
                   gpath, gbase, gout>>

\* for i in range(0, total_files, batch_size): exhausted
loop_end ==
    /\ pc = "loop"
    /\ i >= Len(files_and_args)
    /\ pc' = "done"
    /\ UNCHANGED <<opts, fs, fs0, fs1, files_and_args, num_workers, i, batch, task,
                   progress, levels, run, prev, batches, nwrites, nin, nout,
                   gpath, gbase, gout>>

\* Pool(num_workers) raises ValueError for a size below 1
pool_raises ==
    /\ pc = "loop"
    /\ i < Len(files_and_args)
    /\ num_workers < 1
    /\ pc' = "crashed"
    /\ UNCHANGED <<opts, fs, fs0, fs1, files_and_args, num_workers, i, batch, task,
                   progress, levels, run, prev, batches, nwrites, nin, nout,
                   gpath, gbase, gout>>

\* batch = files_and_args[i:i+batch_size]; with Pool(num_workers) as pool
batch_start ==
    /\ pc = "loop"
    /\ i < Len(files_and_args)
    /\ num_workers >= 1
    /\ batch' = slice(Len(files_and_args), i, opts.batch_size)
    /\ batches' = Append(batches, batch')
    /\ pc' = "map"
    /\ UNCHANGED <<opts, fs, fs0, fs1, files_and_args, num_workers, i, task,
                   progress, levels, run, prev, nwrites, nin, nout,
                   gpath, gbase, gout>>

\* a pool that takes every entry at once
worker_always_free == TRUE

\* a pool worker is free to take another entry of the batch
worker_free == Active < num_workers

\* a free worker of the pool takes entry k and runs process_file on it
worker_take(k) ==
    /\ pc = "map"
    /\ k \in batch
    /\ task[k].pc = "pending"
    /\ worker_free
    /\ task' = [task EXCEPT ![k] = process_file(@, fs[files_and_args[k].f],
                                                files_and_args[k].base, opts)]
    /\ UNCHANGED <<opts, fs, fs0, fs1, files_and_args, num_workers, pc, i, batch,
                   progress, levels, run, prev, batches, nwrites, nin, nout,
                   gpath, gbase, gout>>

\* a step whose logged error ends the pool: the entries of the batch not yet
\* returned are dropped
apply_error_ends_pool(k, r) ==
    /\ task' = [j \in Entries |->
                  IF j = k THEN r.t
                  ELSE IF r.t.log = "error" /\ j \in batch /\ task[j].pc # "done"
                       THEN [task[j] EXCEPT !.pc = "done"]
                       ELSE task[j]]
    /\ fs' = [fs EXCEPT ![files_and_args[k].f] = r.F]
    /\ nwrites' = nwrites + r.w
    /\ UNCHANGED <<opts, fs0, fs1, files_and_args, num_workers, pc, i, batch,
                   progress, levels, run, prev, batches, nin, nout,
                   gpath, gbase, gout>>

\* the effect of one step r of entry k's call
apply(k, r) ==
    /\ task' = [task EXCEPT ![k] = r.t]
    /\ fs' = [fs EXCEPT ![files_and_args[k].f] = r.F]
    /\ nwrites' = nwrites + r.w
    /\ UNCHANGED <<opts, fs0, fs1, files_and_args, num_workers, pc, i, batch,
                   progress, levels, run, prev, batches, nin, nout,
                   gpath, gbase, gout>>

task_open(k) ==
    /\ pc = "map" /\ k \in Entries /\ task[k].pc = "open"
    /\ apply(k, open_container(task[k], fs[files_and_args[k].f], genre_of(k), opts))

task_add_tags(k) ==
    /\ pc = "map" /\ k \in Entries /\ task[k].pc = "addtags"
    /\ apply(k, add_tags(task[k], fs[files_and_args[k].f], genre_of(k), opts))

task_backup_exists(k) ==
    /\ pc = "map" /\ k \in Entries /\ task[k].pc = "backup"
    /\ apply(k, backup_exists(task[k], fs[files_and_args[k].f]))

task_backup_copy(k) ==
    /\ pc = "map" /\ k \in Entries /\ task[k].pc = "copy"
    /\ apply(k, backup_file(task[k], fs[files_and_args[k].f]))

task_write(k) ==
    /\ pc = "map" /\ k \in Entries /\ task[k].pc = "write"
    /\ apply(k, write_tag(task[k], fs[files_and_args[k].f], genre_of(k), opts))

task_chmod(k) ==
    /\ pc = "map" /\ k \in Entries /\ task[k].pc = "chmod"
    /\ apply(k, chmod_and_retry(task[k], fs[files_and_args[k].f]))

\* pool.map has returned: log every result, update the bar, next slice
batch_end ==
    /\ pc = "map"
    /\ \A k \in batch : task[k].pc = "done"
    /\ levels' = [k \in Entries |->
                    IF k \in batch THEN log_level(task[k].result) ELSE levels[k]]
    /\ progress' = progress + Cardinality(batch)
    /\ i' = i + opts.batch_size
    /\ pc' = "loop"
    /\ UNCHANGED <<opts, fs, fs0, fs1, files_and_args, num_workers, batch, task,
                   run, prev, batches, nwrites, nin, nout,
                   gpath, gbase, gout>>

\* the script is run again with the same arguments
next_run ==
    /\ pc = "done"
    /\ run < MaxRuns
    /\ run' = run + 1
    /\ prev' = [k \in Entries |-> task[k].result]
    /\ pc' = "main"
    /\ UNCHANGED <<opts, fs, fs0, fs1, files_and_args, num_workers, i, batch, task,
                   progress, levels, batches, nwrites, nin, nout,
                   gpath, gbase, gout>>

(***************************************************************************)
(* Initial states: the trees, root lists and arguments the runs start from.*)
(***************************************************************************)
Stems == <<"a", "b", "c", "d", "e">>

\* the managed root /m, the unmanaged root /u, a genre folder /m/uk (also
\* given as a nested root), an album folder and a directory that is missing
ManagedDir == << <<"m">> >>
UnmanagedDir == << <<"u">> >>
GenreDir == << <<"m">>, <<"u", "k">> >>
AlbumDir == << <<"m">>, <<"u", "k">>, <<"d", "j">> >>
OtherGenreDir == << <<"u">>, <<"r", "o">> >>
MissingDir == << <<"e">> >>

DefaultRoots == <<ManagedDir, UnmanagedDir>>
RepeatedRoots == <<ManagedDir, UnmanagedDir, ManagedDir>>
NestedRoots == <<ManagedDir, UnmanagedDir, GenreDir>>
MissingRoots == <<ManagedDir, MissingDir>>

\* the label of /m/uk under /m, and another label
LabelUK == <<"U", "K">>
LabelRo == <<"R", "o">>

NoLimit == [given |-> FALSE, n |-> 0]
Limit(n) == [given |-> TRUE, n |-> n]

PlainFile(f) ==
    [dir |-> GenreDir, stem |-> <<Stems[f]>>, ext |-> ".flac",
     tagged |-> TRUE, has_key |-> FALSE, values |-> <<>>,
     perm |-> "rw", chmod |-> "fix", err |-> "none", mode |-> "orig",
     bak_exists |-> FALSE, bak |-> NoContent, bak_err |-> FALSE]

\* access and container faults: (perm, chmod, err)
Faults ==
    { <<"rw", "fix", "none">>, <<"rw", "fix", "open">>, <<"rw", "fix", "save">> }
    \cup { <<p, c, "none">> : p \in {"r", "none"}, c \in {"fix", "noop", "fail"} }

\* what the genre key holds: absent, the label, another label, two values, empty
Stored ==
    { <<FALSE, <<>> >>, <<TRUE, <<LabelUK>> >>, <<TRUE, <<LabelRo>> >>,
      <<TRUE, <<LabelUK, LabelRo>> >>, <<TRUE, <<>> >> }

\* the sibling backup: none, one already there, the copy fails
Backups == { <<FALSE, FALSE>>, <<TRUE, FALSE>>, <<FALSE, TRUE>> }

WithFault(F, x) == [F EXCEPT !.perm = x[1], !.chmod = x[2], !.err = x[3]]
WithStored(F, x) == [F EXCEPT !.has_key = x[1], !.values = x[2]]
WithBackup(F, x) ==
    [F EXCEPT !.bak_exists = x[1], !.bak_err = x[2],
              !.bak = IF x[1] THEN [tagged |-> TRUE, has_key |-> TRUE,
                                    values |-> <<LabelRo>>] ELSE NoContent]

\* one file under /m/uk with every fault, stored value and backup state
FaultyFiles(f, backup) ==
    { WithBackup(WithStored(WithFault([PlainFile(f) EXCEPT !.ext = e], x), s), b) :
        e \in {".flac", ".mp3"}, x \in Faults, s \in Stored,
        b \in IF backup THEN Backups ELSE { <<FALSE, FALSE>> } }
    \cup { [WithFault(PlainFile(f), x) EXCEPT !.ext = ".mp3", !.tagged = FALSE] :
             x \in Faults }

\* files that differ in where they are and what they are named
PlacedFiles(f) ==
    { WithStored([PlainFile(f) EXCEPT !.dir = d, !.ext = e], s) :
        d \in {ManagedDir, GenreDir, AlbumDir, OtherGenreDir},
        e \in {".flac", ".MP3", ".au", ".acm", ".txt"},
        s \in { <<FALSE, <<>> >>, <<TRUE, <<LabelUK>> >> } }

\* the files of a scheduling run: the first two are to update, correct
\* already, malformed or unreadable for good; the others are to update
QueuedFiles(f) ==
    IF f <= 2
    THEN { PlainFile(f), WithStored(PlainFile(f), <<TRUE, <<LabelUK>> >>),
           WithFault(PlainFile(f), <<"rw", "fix", "open">>),
           WithFault(PlainFile(f), <<"none", "noop", "none">>) }
    ELSE { PlainFile(f) }

Options(dry_run, backup, genre, batch_size, cpu_limit, directories) ==
    [dry_run |-> dry_run, backup |-> backup, genre |-> genre,
     batch_size |-> batch_size, cpu_limit |-> cpu_limit,
     directories |-> directories]

InitRest ==
    /\ fs0 = fs
    /\ fs1 = fs
    /\ files_and_args = <<>>
    /\ num_workers = 0
    /\ pc = "main"
    /\ i = 0
    /\ batch = {}
    /\ task = <<>>
    /\ progress = 0
    /\ levels = <<>>
    /\ run = 1
    /\ prev = <<>>
    /\ batches = <<>>
    /\ nwrites = 0
    /\ nin = <<>>
    /\ nout = <<>>
    /\ gpath = <<>>
    /\ gbase = <<>>
    /\ gout = <<>>

\* one file, every fault
InitFaulty ==
    /\ \E d \in BOOLEAN, b \in BOOLEAN :
         /\ opts = Options(d, b, None, 1, NoLimit, DefaultRoots)
         /\ fs \in [{1} -> FaultyFiles(1, b)]
    /\ InitRest

\* two files, every placement, root list and filter
InitPlaced ==
    /\ opts \in { Options(d, b, g, n, NoLimit, r) :
                    d \in BOOLEAN, b \in BOOLEAN, g \in {None, <<>>, <<"u", "K">>, <<"K">>},
                    n \in {1, MaxBatchSize},
                    r \in {DefaultRoots, RepeatedRoots, NestedRoots, MissingRoots} }
    /\ \E F \in PlacedFiles(1) :
         fs \in { <<F>>, <<F, PlainFile(2)>> }
    /\ InitRest

\* MaxFiles files, every batch size and cpu limit
InitQueued ==
    /\ opts \in { Options(FALSE, FALSE, None, n, c, DefaultRoots) :
                    n \in 1..MaxBatchSize,
                    c \in {NoLimit} \cup {Limit(x) : x \in -1..AvailableCpus} }
    /\ fs \in { q \in [1..MaxFiles -> UNION {QueuedFiles(f) : f \in 1..MaxFiles}] :
                  \A f \in 1..MaxFiles : q[f] \in QueuedFiles(f) }
    /\ InitRest

Init == InitFaulty \/ InitPlaced \/ InitQueued

Next ==
    \/ main_scan
    \/ loop_end
    \/ pool_raises
    \/ batch_start
    \/ \E k \in Entries : worker_take(k)
    \/ \E k \in Entries : task_open(k)
    \/ \E k \in Entries : task_add_tags(k)
    \/ \E k \in Entries : task_backup_exists(k)
    \/ \E k \in Entries : task_backup_copy(k)
    \/ \E k \in Entries : task_write(k)
    \/ \E k \in Entries : task_chmod(k)
    \/ batch_end
    \/ next_run

Spec == Init /\ [][Next]_vars

(***************************************************************************)
(* What happened to an entry, read from the worker's return and its log.   *)
(***************************************************************************)
file_of(k) == files_and_args[k].f

Done(k) == task[k].pc = "done"

\* set_genre_tag returned True
Updated(k) == Done(k) /\ task[k].result = "Genre set to"

\* set_genre_tag found current_genre == genre (no log, False)
AlreadyCorrect(k) ==
    Done(k) /\ task[k].result = "Already correct or failed" /\ task[k].log = ""

\* set_genre_tag logged an error and returned False
Failed(k) == Done(k) /\ task[k].log \in {"error", "permission error"}

\* the extension is .au or .acm
KnownUnsupported(k) == Done(k) /\ task[k].log = "format not supported"

\* the file of entry k has no other entry in the work list
ListedOnce(k) == \A j \in Entries : file_of(j) = file_of(k) => j = k

(***************************************************************************)
(* C1.  Idempotence across runs, for the runs that write (dry_run false):  *)
(* when a run has completed after an earlier run with the same arguments,  *)
(* every entry the earlier run reported as updated is now found already    *)
(* correct, and the later run persisted no container.  (With dry_run true  *)
(* nothing is written, so every run reports the same updates again.)       *)
(***************************************************************************)
C1_IdempotentRuns ==
    (run >= 2 /\ pc = "done" /\ ~opts.dry_run) =>
        /\ \A k \in Entries : prev[k] = "Genre set to" => AlreadyCorrect(k)
        /\ nwrites = 0

(***************************************************************************)
(* C2.  Dry-run non-mutation: with dry_run true no file record ever differs*)
(* from the tree the first run started from (content, tag block, backup,   *)
(* permission bits) and no container is persisted.                         *)
(***************************************************************************)
C2_DryRunNoMutation ==
    opts.dry_run => (fs = fs0 /\ nwrites = 0)

\* a dry run has reported an update for an .mp3 without a tag block and has
\* completed
C2_Witness ==
    /\ opts.dry_run
    /\ pc = "done"
    /\ \E k \in Entries : Updated(k) /\ ~fs[file_of(k)].tagged

(***************************************************************************)
(* C3.  The permission retry happens once: no call of set_genre_tag makes  *)
(* more than one recursive call (two attempts, one os.chmod).              *)
(***************************************************************************)
C3_RetryOnce ==
    \A k \in Entries : task[k].depth <= 1

(***************************************************************************)
(* C4.  A backup is never overwritten: in every step, a backup that exists *)
(* still exists afterwards with the same content.                          *)
(***************************************************************************)
C4_BackupNeverOverwritten ==
    [][\A f \in DOMAIN fs :
          fs[f].bak_exists => (fs'[f].bak_exists /\ fs'[f].bak = fs[f].bak)]_vars

(***************************************************************************)
(* C5.  A failed update is reported as failed: the result delivered for an *)
(* entry whose update raised differs from the result delivered for an entry*)
(* whose tag was already correct.                                          *)
(***************************************************************************)
C5_FailedIsDistinct ==
    \A k, j \in Entries :
        (Failed(k) /\ AlreadyCorrect(j)) => task[k].result # task[j].result

(***************************************************************************)
(* C6.  Known-unsupported extensions: the result delivered for an .au or   *)
(* .acm file differs from the result delivered for a file that was already *)
(* correct or whose update failed.                                         *)
(***************************************************************************)
C6_KnownUnsupportedIsDistinct ==
    \A k, j \in Entries :
        (KnownUnsupported(k) /\ (AlreadyCorrect(j) \/ Failed(j)))
            => task[k].result # task[j].result

(***************************************************************************)
(* C7.  Batch isolation.  What an entry's call does when it runs alone on  *)
(* the file as the run found it is computed by `alone`; in the pool, next  *)
(* to entries that raise, every entry whose file is listed once returns    *)
(* that same result and leaves that same file, no raised error ends the    *)
(* run, and a batch being mapped can always go on.                         *)
(***************************************************************************)
seq_step(t, F, genre, o) ==
    CASE t.pc = "open" -> open_container(t, F, genre, o)
      [] t.pc = "addtags" -> add_tags(t, F, genre, o)
      [] t.pc = "backup" -> backup_exists(t, F)
      [] t.pc = "copy" -> backup_file(t, F)
      [] t.pc = "write" -> write_tag(t, F, genre, o)
      [] t.pc = "chmod" -> chmod_and_retry(t, F)

RECURSIVE alone(_, _, _, _)
alone(t, F, genre, o) ==
    IF t.pc = "done" THEN Step(t, F, 0)
    ELSE LET r == seq_step(t, F, genre, o) IN alone(r.t, r.F, genre, o)

Expected(k) ==
    alone(process_file(NewTask, fs1[file_of(k)], files_and_args[k].base, opts),
          fs1[file_of(k)], genre_of(k), opts)

C7_BatchIsolation ==
    /\ pc = "crashed" => num_workers < 1
    /\ pc = "map" =>
         \/ \A k \in batch : Done(k)
         \/ \E k \in batch : Running(k) \/ (task[k].pc = "pending" /\ worker_free)
    /\ pc = "done" => \A k \in Entries : Done(k)
    /\ pc \in {"map", "loop", "done"} =>
         \A k \in Entries :
            (Done(k) /\ ListedOnce(k)) =>
                /\ task[k].result = Expected(k).t.result
                /\ fs[file_of(k)] = Expected(k).F

\* a run has completed in which an entry raised on opening its container
\* and another entry of the same batch updated its file
C7_Witness ==
    /\ pc = "done"
    /\ \E b \in 1..Len(batches) : \E k, j \in batches[b] :
          /\ task[k].log = "error" /\ fs[file_of(k)].err = "open"
          /\ Updated(j) /\ fs[file_of(j)].values = <<genre_of(j)>>

(***************************************************************************)
(* C8.  Batches are strictly sequential and the pool is bounded: every     *)
(* entry before the current slice has returned, no entry after it has      *)
(* started, entries run only while their slice is mapped by a pool, and    *)
(* the pool processes at most num_workers entries at a time.               *)
(***************************************************************************)
C8_SequentialBatches ==
    pc \in {"map", "loop", "done"} =>
        /\ Active <= (IF pc = "map" THEN num_workers ELSE 0)
        /\ \A k \in Entries :
              /\ k <= i => Done(k)
              /\ k > i + opts.batch_size => task[k].pc = "pending"
              /\ Running(k) => (pc = "map" /\ k \in batch)

\* the second slice is being mapped, a full pool of two workers is busy
C8_Witness ==
    /\ pc = "map"
    /\ Len(batches) = 2
    /\ Active = num_workers
    /\ Active = 2

(***************************************************************************)
(* C9.  The batches partition the list: the b-th slice dispatched is the   *)
(* entries (b-1)*batch_size+1 .. b*batch_size (cut at the end of the list),*)
(* never empty; and when the run completes every entry was in exactly one  *)
(* slice, has one result, logged once, and the bar counts every entry.     *)
(***************************************************************************)
C9_BatchPartition ==
    pc \in {"map", "loop", "done"} =>
        /\ \A b \in 1..Len(batches) :
              /\ batches[b] = ((b - 1) * opts.batch_size + 1)
                                 ..Min(b * opts.batch_size, Len(files_and_args))
              /\ batches[b] # {}
        /\ pc = "done" =>
              /\ \A k \in Entries :
                    /\ Cardinality({b \in 1..Len(batches) : k \in batches[b]}) = 1
                    /\ Done(k) /\ task[k].result # "" /\ levels[k] # ""
              /\ progress = Len(files_and_args)

\* a run has completed whose last slice is shorter than batch_size
C9_Witness ==
    /\ pc = "done"
    /\ Len(batches) = 2
    /\ Cardinality(batches[2]) < opts.batch_size
    /\ Cardinality(batches[1]) = opts.batch_size

(***************************************************************************)
(* normalize_genre as a function: the folder names it is applied to.       *)
(***************************************************************************)
\* every upper/lower-casing of the word p
Casings(p) ==
    { w \in [1..Len(p) -> UNION {Range(char_lower(p[n])) \cup Range(char_upper(p[n]))
                                    : n \in 1..Len(p)}] :
        \A n \in 1..Len(p) : w[n] \in Range(char_lower(p[n])) \cup Range(char_upper(p[n])) }

NormAlphabet == {"u", "K", "s", "&", " ", "TAB", "sz", "napos"}

Texts(n) == UNION { [1..m -> NormAlphabet] : m \in 0..n }

NormInputs ==
    UNION { Casings(p) : p \in words_to_preserve }
    \cup { w \o <<" ">> \o v : w \in Casings(<<"U", "K">>), v \in Casings(<<"d", "n", "b">>) }
    \cup Texts(MaxTextLen)

\* the variables of the program, idle during a function check
InitIdle ==
    /\ opts = Options(FALSE, FALSE, None, 1, NoLimit, <<>>)
    /\ fs = <<>>
    /\ fs0 = <<>>
    /\ fs1 = <<>>
    /\ files_and_args = <<>>
    /\ num_workers = 0
    /\ i = 0
    /\ batch = {}
    /\ task = <<>>
    /\ progress = 0
    /\ levels = <<>>
    /\ run = 1
    /\ prev = <<>>
    /\ batches = <<>>
    /\ nwrites = 0

InitNorm ==
    /\ nin \in NormInputs
    /\ nout = None
    /\ pc = "norm"
    /\ gpath = <<>>
    /\ gbase = <<>>
    /\ gout = <<>>
    /\ InitIdle

\* normalize_genre(genre) is called on the folder name
normalize_call ==
    /\ pc = "norm"
    /\ nout' = normalize_genre(nin)
    /\ pc' = "normed"
    /\ UNCHANGED <<opts, fs, fs0, fs1, files_and_args, num_workers, i, batch, task,
                   progress, levels, run, prev, batches, nwrites, nin,
                   gpath, gbase, gout>>

NextNorm == normalize_call

SpecNorm == InitNorm /\ [][NextNorm]_vars

\* word w is some upper/lower-casing of the preserve-set member p
CasingOf(w, p) == str_upper(w) = str_upper(p)

(***************************************************************************)
(* C10.  Preserve-set correctness: every word of the folder name that is a *)
(* casing of a preserve-set member comes out as that member (as listed, or *)
(* upper-cased); every other word comes out capitalized.                   *)
(***************************************************************************)
C10_PreserveSet ==
    pc = "normed" =>
        LET in_words == str_split(nin)
            out_words == str_split(nout)
        IN  /\ Len(out_words) = Len(in_words)
            /\ \A n \in 1..Len(in_words) :
                 IF \E p \in words_to_preserve : CasingOf(in_words[n], p)
                 THEN \E p \in words_to_preserve :
                        /\ CasingOf(in_words[n], p)
                        /\ out_words[n] \in {p, str_upper(p)}
                 ELSE out_words[n] = str_capitalize(in_words[n])

(***************************************************************************)
(* get_genre_from_path as a function: the paths and roots it is applied to.*)
(***************************************************************************)
\* file paths in the roots, in a genre folder, in an album folder
PathInputs ==
    { Append(d, <<s, e>>) :
        d \in {ManagedDir, UnmanagedDir, GenreDir, AlbumDir, OtherGenreDir},
        s \in {"a", "b"},
        e \in {".flac", ".MP3", ".au"} }

\* the roots, a nested root, a missing directory, and the path itself
BaseInputs(path) ==
    {ManagedDir, UnmanagedDir, GenreDir, AlbumDir, MissingDir, path}

InitPath ==
    /\ gpath \in PathInputs
    /\ gbase \in BaseInputs(gpath)
    /\ gout = <<>>
    /\ pc = "path"
    /\ nin = <<>>
    /\ nout = <<>>
    /\ InitIdle

\* get_genre_from_path(path, base_folder) is called
genre_from_path_call ==
    /\ pc = "path"
    /\ gout' = get_genre_from_path(gpath, gbase)
    /\ pc' = "pathed"
    /\ UNCHANGED <<opts, fs, fs0, fs1, files_and_args, num_workers, i, batch, task,
                   progress, levels, run, prev, batches, nwrites, nin, nout,
                   gpath, gbase>>

NextPath == genre_from_path_call

SpecPath == InitPath /\ [][NextPath]_vars

\* the directory levels of path beneath base_folder, the file's own name left out
DirsBeneath(path, base_folder) == SubSeq(path, Len(base_folder) + 1, Len(path) - 1)

(***************************************************************************)
(* C15.  The genre always comes from a directory: get_genre_from_path      *)
(* returns None when the path is not under the root or has no directory    *)
(* level beneath it, and otherwise the normalized name of the first        *)
(* directory level beneath the root; never a label made from the file's    *)
(* own name.                                                               *)
(***************************************************************************)
C15_GenreFromDirectory ==
    pc = "pathed" =>
        gout = IF ~IsPrefix(gbase, gpath) \/ DirsBeneath(gpath, gbase) = <<>>
               THEN None
               ELSE normalize_genre(DirsBeneath(gpath, gbase)[1])

(***************************************************************************)
(* C11.  Normalization stability: normalizing the label normalize_genre    *)
(* returned gives that same label again.                                   *)
(***************************************************************************)
C11_NormalizationStable ==
    pc = "normed" => normalize_genre(nout) = nout

(***************************************************************************)
(* C12.  The genre filter skips without opening.  An entry whose resolved  *)
(* label does not contain the filter text (compared in lower case) is      *)
(* never opened: its call holds no container, has made no retry, returns   *)
(* "Skipped (genre filter)", and its file, when no other entry lists it,   *)
(* is as the run found it (content, backup, permission bits).  An entry    *)
(* whose resolved label contains the text, or any resolved entry when no   *)
(* filter is given, returns what set_genre_tag returned.                   *)
(***************************************************************************)
Resolved(k) == genre_of(k) # None /\ genre_of(k) # <<>>

FilterGiven == opts.genre # None

LabelContainsFilter(k) == str_contains(str_lower(genre_of(k)), str_lower(opts.genre))

FilteredOut(k) == Resolved(k) /\ FilterGiven /\ ~LabelContainsFilter(k)

PassedOn(k) == Resolved(k) /\ (~FilterGiven \/ LabelContainsFilter(k))

C12_FilterSkipsUnopened ==
    \A k \in Entries :
        /\ FilteredOut(k) =>
              /\ task[k].pc \in {"pending", "done"}
              /\ task[k].h = NoContent /\ task[k].depth = 0 /\ task[k].log = ""
              /\ Done(k) => task[k].result = "Skipped (genre filter)"
              /\ ListedOnce(k) => fs[file_of(k)] = fs1[file_of(k)]
        /\ (PassedOn(k) /\ Done(k)) =>
              task[k].result \in {"Genre set to", "Already correct or failed"}

\* a writing run has completed in which a .flac without a genre value was
\* skipped by the filter and a file whose label holds the filter text in
\* another casing was updated
C12_Witness ==
    /\ pc = "done" /\ ~opts.dry_run
    /\ \E k, j \in Entries :
          /\ FilteredOut(k) /\ task[k].result = "Skipped (genre filter)"
          /\ suffix_lower(fs[file_of(k)]) = ".flac" /\ ~fs[file_of(k)].has_key
          /\ PassedOn(j) /\ opts.genre # <<>> /\ genre_of(j) # opts.genre
          /\ Updated(j) /\ fs[file_of(j)].values = <<genre_of(j)>>

(***************************************************************************)
(* C13.  Updated implies the tag was written: with dry_run false, in every *)
(* step in which an entry's call returns True (first attempt or after the  *)
(* permission retry), the file as that step leaves it holds a genre list   *)
(* whose first element, read through the format's getter, is the entry's   *)
(* target genre.                                                           *)
(***************************************************************************)
C13_UpdatedIsWritten ==
    [][~opts.dry_run =>
         \A k \in Entries :
            (~Updated(k) /\ task'[k].pc = "done" /\ task'[k].result = "Genre set to") =>
                LET G == fs'[file_of(k)]
                IN  /\ G.has_key /\ G.values # <<>>
                    /\ getter(suffix_lower(G), read_first(Content(G))) = genre_of(k)]_vars

\* an .mp3 holding another genre was updated after os.chmod made it writable
C13_Witness ==
    /\ ~opts.dry_run
    /\ \E k \in Entries :
          /\ Updated(k) /\ task[k].depth = 1
          /\ suffix_lower(fs[file_of(k)]) = ".mp3"
          /\ fs1[file_of(k)].values = <<LabelRo>>
          /\ fs[file_of(k)].values = <<genre_of(k)>>

(***************************************************************************)
(* C14.  A dry run reports Updated only for a real difference: with        *)
(* dry_run true, every entry reported as updated has a file that could be  *)
(* opened and read, and that file has no tag block or holds a genre value  *)
(* other than the entry's target genre.                                    *)
(***************************************************************************)
\* the container class can open F and read its tags
Readable(F) == F.perm # "none" /\ F.err # "open"

\* F has no tag block, or the genre value read from F is not genre
Differs(F, genre) ==
    \/ ~F.tagged
    \/ ~read_first_raises(Content(F))
          /\ getter(suffix_lower(F), read_first(Content(F))) # genre

C14_DryRunUpdatedIsDifference ==
    opts.dry_run =>
        \A k \in Entries :
            Updated(k) => /\ Readable(fs[file_of(k)])
                          /\ Differs(fs[file_of(k)], genre_of(k))

(***************************************************************************)
(* C16.  Backup precedes every modification: with make_backup true and     *)
(* dry_run false, every step that changes a file's content (the tag block  *)
(* added, the genre written) starts in a state where the file's backup     *)
(* exists; so a file whose backup copy fails is never written.             *)
(***************************************************************************)
C16_BackupPrecedesWrite ==
    [][(opts.backup /\ ~opts.dry_run) =>
         \A f \in DOMAIN fs :
            Content(fs'[f]) # Content(fs[f]) => fs[f].bak_exists]_vars

(***************************************************************************)
(* C17.  No file is handled by two workers: whatever roots the run is      *)
(* given, each file has at most one entry in the work list, so no two      *)
(* entries being processed at the same time have the same file.            *)
(***************************************************************************)
C17_FileListedOnce ==
    /\ \A k \in Entries : ListedOnce(k)
    /\ \A k, j \in Entries :
          (Running(k) /\ Running(j) /\ file_of(k) = file_of(j)) => k = j

(***************************************************************************)
(* C18.  The worker pool size is bounded: once main has computed           *)
(* num_workers for a run that has files, it is at least 1, at most the     *)
(* number of available CPUs, and at most --cpu-limit when one is given.    *)
(***************************************************************************)
C18_PoolSizeBounded ==
    pc \in {"loop", "map", "done", "crashed"} =>
        /\ num_workers >= 1
        /\ num_workers <= AvailableCpus
        /\ opts.cpu_limit.given => num_workers <= opts.cpu_limit.n

=============================================================================
